---- MODULE Spec2Model ----
(***************************************************************************)
(* Verification model of the earthquake OLAP warehouse:                    *)
(*   - the incremental load tracker (src/utils/data_manager.py),           *)
(*   - the incremental orchestrator (scripts/run_etl_incremental.py),      *)
(*   - the star schema builder (src/olap/schema.py).                       *)
(* A table of the DuckDB store is ABSENT or Table(set of rows).  A         *)
(* nullable column holds NULL (the empty tuple) or a one-element tuple.    *)
(***************************************************************************)
EXTENDS Integers, Sequences, FiniteSets, TLC

\* --------------------------------------------------------------- bounds
NumYears == 5
MaxEvents == 1
MaxReq == 2
MaxRows == 3
MaxIds == 2
MaxStartDay == 3
MaxDay == 65
MaxChunkMonths == 1

Years == 2020..(2019 + NumYears)
EventIds == 1..MaxEvents

\* --------------------------------------------------------------- values
NULL == <<>>
\* A table of the store: absent, or present with its rows.
ABSENT == [exists |-> FALSE, rows |-> {}]
Table(rows) == [exists |-> TRUE, rows |-> rows]
TableRows(t) == t.rows
Some(v) == <<v>>
IsNull(x) == x = NULL
Val(x) == x[1]

\* ---------------------------------------------------------- list helpers
SetOf(s) == {s[i] : i \in DOMAIN s}

Min(S) == CHOOSE x \in S : \A y \in S : x <= y

RECURSIVE sorted(_)
\* Python sorted() over a set of integers: ascending list.
sorted(S) == IF S = {} THEN <<>> ELSE <<Min(S)>> \o sorted(S \ {Min(S)})

RECURSIVE Filter(_, _)
\* The elements of list s that are not in set L, in the order of s.
Filter(s, L) ==
    IF s = <<>> THEN <<>>
    ELSE (IF Head(s) \in L THEN <<>> ELSE <<Head(s)>>) \o Filter(Tail(s), L)

RECURSIVE Sum(_, _)
Sum(f, D) == IF D = {} THEN 0
             ELSE LET d == CHOOSE d \in D : TRUE IN f[d] + Sum(f, D \ {d})

Range(a, b) == [i \in 1..(b - a + 1) |-> a + i - 1]

\* List of the elements of s other than y (list.remove on a list without repeats).
RECURSIVE Remove(_, _)
Remove(s, y) ==
    IF s = <<>> THEN <<>>
    ELSE IF Head(s) = y THEN Tail(s) ELSE <<Head(s)>> \o Remove(Tail(s), y)

Restrict(f, D) == [d \in D |-> f[d]]

\* ------------------------------------------------------------ variables
VARIABLES
    config,             \* config.data_source: the configured list of years
    pc,                 \* position of run_etl_incremental.main
    metadata,           \* metadata.json: loaded_years, year_details (row_count)
    db_exists,          \* the DuckDB file exists
    yearly,             \* year -> rows of raw_earthquakes_<year>, or ABSENT
    raw_earthquakes,    \* rows of raw_earthquakes, or ABSENT
    dim_time, dim_location, dim_magnitude, fact_earthquakes,
    cubes,              \* the five cube tables, by name
    df,                 \* process_year: the extracted records of the last year
    removed_rows,       \* transform: the removed-row count it last reported
    cube_jobs,          \* create_cubes: the cube builds still to run
    raw_files,          \* year -> state of data/raw/earthquakes_<year>.csv
    download,           \* the _download_single_file call in progress, if any
    dl_returned,        \* how the last _download_single_file call ended
    chunk_args,         \* arguments of the last _create_date_chunks call
    chunks,             \* what the last _create_date_chunks call returned
    requested_years,    \* main: requested_years
    years_to_process,   \* main: years_to_process
    todo,               \* main: the part of years_to_process not yet processed
    summary,            \* main: summary (get_summary() after validation)
    claimed_years,      \* validate_loaded_years: claimed_years of the last call
    actual_loaded_years,\* main: actual_loaded_years
    needs_merge, needs_olap_rebuild,
    last_run_ok         \* the previous run completed and nothing was changed since

vars == <<config, pc, metadata, db_exists, yearly, raw_earthquakes, dim_time,
          dim_location, dim_magnitude, fact_earthquakes, cubes,
          requested_years, years_to_process, todo, summary, claimed_years,
          actual_loaded_years, needs_merge, needs_olap_rebuild, last_run_ok,
          df, removed_rows, cube_jobs, raw_files, download, dl_returned,
          chunk_args, chunks>>

\* State of the components that are also exercised on their own.
partVars == <<cube_jobs, raw_files, download, dl_returned, chunk_args, chunks>>

storeVars == <<db_exists, yearly, raw_earthquakes, dim_time, dim_location,
               dim_magnitude, fact_earthquakes, cubes>>
olapVars == <<dim_time, dim_location, dim_magnitude, fact_earthquakes, cubes>>
runVars == <<requested_years, years_to_process, todo, summary, claimed_years,
             actual_loaded_years, needs_merge, needs_olap_rebuild>>

\* ------------------------------------------------------ tracker (DataManager)
EmptyMetadata == [loaded_years |-> <<>>, year_details |-> <<>>]

\* What the metadata file holds when json.load fails on it.
UNPARSEABLE == [unparseable |-> TRUE]

\* Variant of the loader that falls back to a state with one loaded year.
load_metadata_KeepsYear(file) ==
    IF file = UNPARSEABLE
    THEN [loaded_years |-> <<2020>>, year_details |-> <<>>]
    ELSE file

\* _load_metadata: the parsed file, or the empty state when parsing fails
\* (a missing file reads as the empty state as well).
load_metadata(file) == IF file = UNPARSEABLE THEN EmptyMetadata ELSE file

get_loaded_years(md) == SetOf(md.loaded_years)

get_years_to_load(md, start_year, end_year) ==
    LET requested == start_year..end_year
        loaded == get_loaded_years(md)
    IN sorted(requested \ loaded)

\* Variant of mark_year_loaded that appends the year without the membership test.
mark_year_loaded_Append(md, year) ==
    LET n == Len(md.loaded_years)
        pos == Cardinality({i \in 1..n : md.loaded_years[i] <= year})
    IN [md EXCEPT !.loaded_years =
            [i \in 1..(n + 1) |-> IF i <= pos THEN md.loaded_years[i]
                                  ELSE IF i = pos + 1 THEN year
                                  ELSE md.loaded_years[i - 1]]]

\* Variant of mark_year_loaded that appends the new year and does not sort.
mark_year_loaded_NoSort(md, year) ==
    IF year \in SetOf(md.loaded_years) THEN md
    ELSE [md EXCEPT !.loaded_years = Append(md.loaded_years, year)]

mark_year_loaded(md, year) ==
    IF year \in SetOf(md.loaded_years) THEN md
    ELSE [md EXCEPT !.loaded_years = sorted(SetOf(md.loaded_years) \cup {year})]

record_year_details(md, year, row_count) ==
    [md EXCEPT !.year_details =
        [y \in (DOMAIN md.year_details) \cup {year} |->
            IF y = year THEN row_count ELSE md.year_details[y]]]

RECURSIVE GapsFrom_FirstOnly(_, _)
\* Variant of the gap scan that stops at the first gap it finds.
GapsFrom_FirstOnly(ly, i) ==
    IF i > Len(ly) - 1 THEN <<>>
    ELSE IF ly[i + 1] - ly[i] - 1 > 0
         THEN << <<ly[i] + 1, ly[i + 1] - 1>> >>
         ELSE GapsFrom_FirstOnly(ly, i + 1)

RECURSIVE GapsFrom_LastYear(_, _)
\* Variant of the gap scan that reports only the last missing year of a gap.
GapsFrom_LastYear(ly, i) ==
    IF i > Len(ly) - 1 THEN <<>>
    ELSE (IF ly[i + 1] - ly[i] - 1 > 0
          THEN << <<ly[i + 1] - 1, ly[i + 1] - 1>> >> ELSE <<>>)
         \o GapsFrom_LastYear(ly, i + 1)

\* Gaps between consecutive entries of the loaded_years list.
RECURSIVE GapsFrom(_, _)
GapsFrom(ly, i) ==
    IF i > Len(ly) - 1 THEN <<>>
    ELSE (IF ly[i + 1] - ly[i] - 1 > 0
          THEN << <<ly[i] + 1, ly[i + 1] - 1>> >> ELSE <<>>) \o GapsFrom(ly, i + 1)

get_summary(md) ==
    IF md.loaded_years = <<>>
    THEN [total_years |-> 0, gaps |-> <<>>, total_events |-> 0]
    ELSE [total_years |-> Len(md.loaded_years),
          gaps |-> GapsFrom(md.loaded_years, 1),
          total_events |-> Sum(md.year_details, DOMAIN md.year_details)]

clear_year(md, year) ==
    [loaded_years |-> Remove(md.loaded_years, year),
     year_details |-> Restrict(md.year_details, (DOMAIN md.year_details) \ {year})]

\* SELECT COUNT(*) FROM raw_earthquakes_<year>: an error when the table is absent.
ProbeCount(tables, year) == IF tables[year] = ABSENT THEN NULL
                            ELSE Some(Cardinality(TableRows(tables[year])))

\* Variant of the probe that takes any existing table, empty or not, as loaded.
ProbeLoaded_AnyCount(tables, year) ==
    LET result == ProbeCount(tables, year)
    IN ~IsNull(result) /\ Val(result) >= 0

ProbeLoaded(tables, year) ==
    LET result == ProbeCount(tables, year)
    IN ~IsNull(result) /\ Val(result) > 0

\* Variant of validate_loaded_years that gives up at the first failing probe:
\* no year is kept once the count query of a claimed year has raised.
validate_loaded_years_Abort(md, tables) ==
    LET claimed == SetOf(md.loaded_years)
        failed == {year \in claimed : IsNull(ProbeCount(tables, year))}
        actual == IF failed # {} THEN {}
                  ELSE {year \in claimed : ProbeLoaded(tables, year)}
        missing == claimed \ actual
    IN IF missing # {}
       THEN <<sorted(actual),
              [loaded_years |-> sorted(actual),
               year_details |-> Restrict(md.year_details,
                                         (DOMAIN md.year_details) \ missing)]>>
       ELSE <<sorted(actual), md>>

\* validate_loaded_years: <<returned list, metadata after the call>>.
validate_loaded_years(md, tables) ==
    LET claimed == SetOf(md.loaded_years)
        actual == {year \in claimed : ProbeLoaded(tables, year)}
        missing == claimed \ actual
    IN IF missing # {}
       THEN <<sorted(actual),
              [loaded_years |-> sorted(actual),
               year_details |-> Restrict(md.year_details,
                                         (DOMAIN md.year_details) \ missing)]>>
       ELSE <<sorted(actual), md>>

\* ------------------------------------------------------------ SQL values
\* a = b in SQL: true only when both sides are non-null and equal.
SqlEq(a, b) == ~IsNull(a) /\ ~IsNull(b) /\ a = b

COALESCE(x, d) == IF IsNull(x) THEN Some(d) ELSE x

\* Collation of the strings the model uses (binary order of their bytes).
StrOrder == <<"Great", "Light", "Major", "Minor", "Moderate", "Strong", "Tokyo",
              "Unknown", "ml">>
StrRank(s) == CHOOSE i \in DOMAIN StrOrder : StrOrder[i] = s

\* Sort key of a column value under ORDER BY ... ASC (DuckDB: NULLS LAST):
\* a null flag, then the value.
OrdInt(x) == IF IsNull(x) THEN <<1, 0>> ELSE <<0, Val(x)>>
OrdStr(x) == IF IsNull(x) THEN <<1, 0>> ELSE <<0, StrRank(Val(x))>>

LexLeq(a, b) ==
    \/ a = b
    \/ \E i \in DOMAIN a : a[i] < b[i] /\ \A j \in 1..(i - 1) : a[j] = b[j]

RECURSIVE OrderBy(_)
\* The rows of S (each with its sort key in field ord) in ascending key order.
OrderBy(S) ==
    IF S = {} THEN <<>>
    ELSE LET m == CHOOSE x \in S : \A y \in S : LexLeq(x.ord, y.ord)
         IN <<m>> \o OrderBy(S \ {m})

\* ----------------------------------------------- derived columns (transform)
\* datetime is encoded as year * 100 + month.
YearOf(dt) == dt \div 100
MonthOf(dt) == dt % 100

\* magnitude is held in tenths: 25 is 2.5.
MagnitudeCategory(mag) ==
    IF mag < 30 THEN "Minor"
    ELSE IF mag < 50 THEN "Light"
    ELSE IF mag < 60 THEN "Moderate"
    ELSE IF mag < 70 THEN "Strong"
    ELSE IF mag < 80 THEN "Major"
    ELSE "Great"

\* ------------------------------------------------- transform (DataTransformer)
\* Bounds the validation reads from config.etl.validation (defaults), with
\* magnitude in tenths.
MinMagnitude == -20
MaxMagnitude == 100
MinDepth == -10
MaxDepth == 1000

\* _clean_data: rows with a null critical field are dropped, a null depth
\* becomes 0 and a null place 'Unknown'.
_clean_data(frame) ==
    {[r EXCEPT !.depth = COALESCE(r.depth, 0),
               !.place = COALESCE(r.place, "Unknown")] :
        r \in {x \in frame : /\ ~IsNull(x.time) /\ ~IsNull(x.latitude)
                              /\ ~IsNull(x.longitude) /\ ~IsNull(x.magnitude)}}

\* Variant of the validation without the coordinate filter.
_validate_data_NoCoordinates(frame) ==
    {r \in frame :
        /\ Val(r.magnitude) >= MinMagnitude /\ Val(r.magnitude) <= MaxMagnitude
        /\ Val(r.depth) >= MinDepth /\ Val(r.depth) <= MaxDepth}

\* _validate_data: magnitude, depth and coordinates within their ranges.
_validate_data(frame) ==
    {r \in frame :
        /\ Val(r.magnitude) >= MinMagnitude /\ Val(r.magnitude) <= MaxMagnitude
        /\ Val(r.depth) >= MinDepth /\ Val(r.depth) <= MaxDepth
        /\ Val(r.latitude) >= -90 /\ Val(r.latitude) <= 90
        /\ Val(r.longitude) >= -180 /\ Val(r.longitude) <= 180}

\* place.str.split(" of ").list.last(): the text after the last " of ".
RegionOf(place) == IF place = "5km N of Tokyo" THEN "Tokyo" ELSE place

\* _enrich_data: datetime from time, magnitude_category, region from place.
_enrich_data(r) ==
    [event_id |-> r.event_id, datetime |-> r.time,
     latitude |-> r.latitude, longitude |-> r.longitude,
     place |-> r.place, region |-> Some(RegionOf(Val(r.place))),
     magnitude |-> r.magnitude, magnitude_type |-> r.magnitude_type,
     magnitude_category |-> Some(MagnitudeCategory(Val(r.magnitude))),
     depth |-> r.depth]

\* DataTransformer.transform: clean, validate, enrich.
transform(frame) == {_enrich_data(r) : r \in _validate_data(_clean_data(frame))}

\* transform, lines 54-59: initial rows minus final rows, as it is reported.
RemovedRows(frame) == Cardinality(frame) - Cardinality(transform(frame))

\* ------------------------------------------------- schema builder (OLAPSchema)
\* _create_dim_time: distinct non-null datetimes, numbered in datetime order.
\* year and month are the columns the transform derives from datetime, so a
\* (datetime, year, month, ...) tuple is fixed by its datetime.
DimTimeKeys(raw) ==
    {[datetime |-> r.datetime, ord |-> OrdInt(r.datetime)] :
        r \in {x \in raw : ~IsNull(x.datetime)}}

CreateDimTime(raw) ==
    LET s == OrderBy(DimTimeKeys(raw))
    IN {[time_id |-> i, datetime |-> s[i].datetime,
         year |-> YearOf(Val(s[i].datetime)),
         month |-> MonthOf(Val(s[i].datetime))] : i \in DOMAIN s}

\* Variant of the location keys that leaves place and region as they are.
DimLocationKeys_NoCoalesce(raw) ==
    {[latitude |-> r.latitude, longitude |-> r.longitude,
      place |-> r.place, region |-> r.region,
      ord |-> OrdInt(r.latitude) \o OrdInt(r.longitude)
                \o OrdStr(r.place) \o OrdStr(r.region)] :
        r \in {x \in raw : ~IsNull(x.latitude) /\ ~IsNull(x.longitude)}}

\* _create_dim_location: distinct (latitude, longitude, place, region) with
\* place and region coalesced, numbered in that column order.
DimLocationKeys(raw) ==
    {[latitude |-> r.latitude, longitude |-> r.longitude,
      place |-> COALESCE(r.place, "Unknown"),
      region |-> COALESCE(r.region, "Unknown"),
      ord |-> OrdInt(r.latitude) \o OrdInt(r.longitude)
                \o OrdStr(COALESCE(r.place, "Unknown"))
                \o OrdStr(COALESCE(r.region, "Unknown"))] :
        r \in {x \in raw : ~IsNull(x.latitude) /\ ~IsNull(x.longitude)}}

CreateDimLocation(raw) ==
    LET s == OrderBy(DimLocationKeys(raw))
    IN {[location_id |-> i, latitude |-> s[i].latitude,
         longitude |-> s[i].longitude, place |-> s[i].place,
         region |-> s[i].region] : i \in DOMAIN s}

\* _create_dim_magnitude: distinct (magnitude, magnitude_type coalesced,
\* magnitude_category as it is), numbered by magnitude, type, category.
DimMagnitudeKeys(raw) ==
    {[magnitude |-> r.magnitude,
      magnitude_type |-> COALESCE(r.magnitude_type, "Unknown"),
      magnitude_category |-> r.magnitude_category,
      ord |-> OrdInt(r.magnitude)
                \o OrdStr(COALESCE(r.magnitude_type, "Unknown"))
                \o OrdStr(r.magnitude_category)] :
        r \in {x \in raw : ~IsNull(x.magnitude)}}

CreateDimMagnitude(raw) ==
    LET s == OrderBy(DimMagnitudeKeys(raw))
    IN {[magnitude_id |-> i, magnitude |-> s[i].magnitude,
         magnitude_type |-> s[i].magnitude_type,
         magnitude_category |-> s[i].magnitude_category] : i \in DOMAIN s}

\* LEFT JOIN: the ids of the matching dimension rows, or one NULL when none matches.
LeftJoinIds(ids) == IF ids = {} THEN {NULL} ELSE {Some(i) : i \in ids}

TimeMatches(r, dt) == {t.time_id : t \in {x \in dt : SqlEq(r.datetime, x.datetime)}}

LocationMatches(r, dl) ==
    {l.location_id : l \in {x \in dl :
        /\ SqlEq(r.latitude, x.latitude)
        /\ SqlEq(r.longitude, x.longitude)
        /\ SqlEq(COALESCE(r.place, "Unknown"), x.place)
        /\ SqlEq(COALESCE(r.region, "Unknown"), x.region)}}

\* Variant of the magnitude join that does not compare magnitude_category.
MagnitudeMatches_NoCategory(r, dm) ==
    {m.magnitude_id : m \in {x \in dm :
        /\ SqlEq(r.magnitude, x.magnitude)
        /\ SqlEq(COALESCE(r.magnitude_type, "Unknown"), x.magnitude_type)}}

MagnitudeMatches(r, dm) ==
    {m.magnitude_id : m \in {x \in dm :
        /\ SqlEq(r.magnitude, x.magnitude)
        /\ SqlEq(COALESCE(r.magnitude_type, "Unknown"), x.magnitude_type)
        /\ SqlEq(r.magnitude_category, x.magnitude_category)}}

FactWhere(r) ==
    /\ ~IsNull(r.datetime)
    /\ ~IsNull(r.latitude)
    /\ ~IsNull(r.longitude)
    /\ ~IsNull(r.magnitude)

\* The first CREATE TABLE fact_earthquakes: one joined row per raw row that
\* passes the WHERE clause and per combination of matching dimension rows.
\* src keeps apart joined rows that carry equal values (the table is a bag).
JoinedFact(raw, dt, dl, dm) ==
    UNION {
        {[src |-> r,
          row |-> [earthquake_id |-> r.event_id, time_id |-> t, location_id |-> l,
                   magnitude_id |-> m, event_id |-> r.event_id,
                   depth |-> Val(COALESCE(r.depth, 0))]] :
            t \in LeftJoinIds(TimeMatches(r, dt)),
            l \in LeftJoinIds(LocationMatches(r, dl)),
            m \in LeftJoinIds(MagnitudeMatches(r, dm))} :
        r \in {x \in raw : FactWhere(x)}}

\* COUNT(*) - COUNT(DISTINCT event_id) over the joined table.
Duplicates(joined) ==
    Cardinality(joined) - Cardinality({j.row.event_id : j \in joined})

\* SELECT DISTINCT ON (event_id) * ... ORDER BY event_id: one row per event_id;
\* the ORDER BY does not say which, so every choice is a possible table.
DistinctOnEventId(joined) ==
    LET ids == {j.row.event_id : j \in joined}
    IN {{f[e].row : e \in ids} :
            f \in {g \in [ids -> joined] : \A e \in ids : g[e].row.event_id = e}}

\* Variant of the fact build without the deduplication step.
CreateFactEarthquakes_NoDedup(raw, dt, dl, dm) ==
    {{j.row : j \in JoinedFact(raw, dt, dl, dm)}}

\* _create_fact_earthquakes: the set of tables the build can leave.
CreateFactEarthquakes(raw, dt, dl, dm) ==
    LET joined == JoinedFact(raw, dt, dl, dm)
    IN IF Duplicates(joined) > 0
       THEN DistinctOnEventId(joined)
       ELSE {{j.row : j \in joined}}

\* ------------------------------------------------------- cubes (OLAPCube)
\* Derived columns the cubes group by.  Columns that the rows of the model
\* do not carry (day_name, hour, hemispheres, climate zone, moon phase) are
\* left out of the grouping keys.
Season(month) ==
    IF month \in {12, 1, 2} THEN "Winter"
    ELSE IF month \in {3, 4, 5} THEN "Spring"
    ELSE IF month \in {6, 7, 8} THEN "Summer"
    ELSE "Fall"

\* depth is held in whole kilometres.
DepthCategory(depth) ==
    IF depth < 70 THEN "Shallow"
    ELSE IF depth < 300 THEN "Intermediate"
    ELSE "Deep"

MagnitudeGroup(mag) ==
    IF mag < 40 THEN "1-3"
    ELSE IF mag < 50 THEN "4"
    ELSE IF mag < 60 THEN "5"
    ELSE IF mag < 80 THEN "6-7"
    ELSE "8-9"

\* FROM fact_earthquakes f JOIN dim_time t JOIN dim_location l JOIN
\* dim_magnitude m, each ON the surrogate id: inner joins, so a fact row with
\* a null or unmatched id is left out.  use says which dimensions are joined.
CubeJoin(fact, dt, dl, dm, use) ==
    {j \in [f : fact, t : dt \cup {NULL}, l : dl \cup {NULL}, m : dm \cup {NULL}] :
        /\ IF "t" \in use
           THEN j.t # NULL /\ SqlEq(j.f.time_id, Some(j.t.time_id))
           ELSE j.t = NULL
        /\ IF "l" \in use
           THEN j.l # NULL /\ SqlEq(j.f.location_id, Some(j.l.location_id))
           ELSE j.l = NULL
        /\ IF "m" \in use
           THEN j.m # NULL /\ SqlEq(j.f.magnitude_id, Some(j.m.magnitude_id))
           ELSE j.m = NULL}

\* GROUP BY key with COUNT(*): one row per key value that occurs among the
\* joined rows.  keys gives each joined row its key.
GroupByCount(joined, keys) ==
    {[key |-> k, event_count |-> Cardinality({j \in joined : keys[j] = k})] :
        k \in {keys[j] : j \in joined}}

create_time_magnitude_cube(fact, dt, dm) ==
    LET joined == CubeJoin(fact, dt, {}, dm, {"t", "m"})
    IN GroupByCount(joined,
         [j \in joined |-> <<j.t.year, j.t.month, Season(j.t.month),
                              j.m.magnitude_category>>])

\* Variant of the location cube that lists every (region, category) pair of
\* the dimensions, with the number of fact rows that carry it.
create_location_magnitude_cube_AllKeys(fact, dl, dm) ==
    LET joined == CubeJoin(fact, {}, dl, dm, {"l", "m"})
    IN {[key |-> <<l.region, m.magnitude_category>>,
         event_count |-> Cardinality({j \in joined :
                            /\ j.l.region = l.region
                            /\ j.m.magnitude_category = m.magnitude_category})] :
            l \in dl, m \in dm}

create_location_magnitude_cube(fact, dl, dm) ==
    LET joined == CubeJoin(fact, {}, dl, dm, {"l", "m"})
    IN GroupByCount(joined,
         [j \in joined |-> <<j.l.region, j.m.magnitude_category>>])

create_depth_analysis_cube(fact, dt, dm) ==
    LET joined == CubeJoin(fact, dt, {}, dm, {"t", "m"})
    IN GroupByCount(joined,
         [j \in joined |-> <<DepthCategory(j.f.depth), j.m.magnitude_category,
                              Season(j.t.month)>>])

create_temporal_trends_cube(fact, dt, dl, dm) ==
    LET joined == CubeJoin(fact, dt, dl, dm, {"t", "l", "m"})
    IN GroupByCount(joined,
         [j \in joined |-> <<j.t.datetime, j.t.year, j.t.month>>])

create_moon_phase_cube(fact, dm) ==
    LET joined == CubeJoin(fact, {}, {}, dm, {"m"})
    IN GroupByCount(joined,
         [j \in joined |-> <<MagnitudeGroup(Val(j.m.magnitude))>>])

\* Variant of the moon phase build that depends on another cube: it yields
\* its rows only once cube_temporal_trends exists.
CubeBuild_MoonAfterTrends(c, fact, dt, dl, dm) ==
    IF c = "cube_time_magnitude" THEN create_time_magnitude_cube(fact, dt, dm)
    ELSE IF c = "cube_location_magnitude"
         THEN create_location_magnitude_cube(fact, dl, dm)
    ELSE IF c = "cube_depth_analysis" THEN create_depth_analysis_cube(fact, dt, dm)
    ELSE IF c = "cube_temporal_trends"
         THEN create_temporal_trends_cube(fact, dt, dl, dm)
    ELSE IF cubes["cube_temporal_trends"].exists
         THEN create_moon_phase_cube(fact, dm)
         ELSE {}

\* The rows one cube build writes to its table, by the name of the table.
CubeBuild(c, fact, dt, dl, dm) ==
    IF c = "cube_time_magnitude" THEN create_time_magnitude_cube(fact, dt, dm)
    ELSE IF c = "cube_location_magnitude"
         THEN create_location_magnitude_cube(fact, dl, dm)
    ELSE IF c = "cube_depth_analysis" THEN create_depth_analysis_cube(fact, dt, dm)
    ELSE IF c = "cube_temporal_trends"
         THEN create_temporal_trends_cube(fact, dt, dl, dm)
    ELSE create_moon_phase_cube(fact, dm)

CubeNames == {"cube_time_magnitude", "cube_location_magnitude",
              "cube_depth_analysis", "cube_temporal_trends", "cube_moon_phase"}

NoCubes == [c \in CubeNames |-> ABSENT]

\* create_cubes: the five CREATE OR REPLACE TABLE statements.
create_cubes(fact, dt, dl, dm) ==
    [cube_time_magnitude |-> Table(create_time_magnitude_cube(fact, dt, dm)),
     cube_location_magnitude |-> Table(create_location_magnitude_cube(fact, dl, dm)),
     cube_depth_analysis |-> Table(create_depth_analysis_cube(fact, dt, dm)),
     cube_temporal_trends |-> Table(create_temporal_trends_cube(fact, dt, dl, dm)),
     cube_moon_phase |-> Table(create_moon_phase_cube(fact, dm))]

\* ------------------------------------------------------------------ rows
\* A row of raw_earthquakes as DataTransformer.transform leaves it: the four
\* critical fields, place, region, depth and the categories are never null.
PipelineRow(e, year) ==
    [event_id |-> e, datetime |-> Some(year * 100 + e),
     latitude |-> Some(10 * e), longitude |-> Some(20),
     place |-> Some("Unknown"), region |-> Some("Unknown"),
     magnitude |-> Some(25), magnitude_type |-> NULL,
     magnitude_category |-> Some(MagnitudeCategory(25)), depth |-> Some(5)]

PipelineRows(year) == {PipelineRow(e, year) : e \in EventIds}

\* The records the extractor reads from the file of a year: the valid
\* records of the year, and two records the transform has to remove, one with
\* its latitude out of range and one without magnitude.
ExtractedRow(e, year) ==
    [event_id |-> e, time |-> Some(year * 100 + e),
     latitude |-> Some(10 * e), longitude |-> Some(20),
     place |-> NULL, magnitude |-> Some(25), magnitude_type |-> NULL,
     depth |-> Some(5)]

OutOfRangeRow(year) ==
    [ExtractedRow(MaxEvents + 1, year) EXCEPT !.latitude = Some(95)]

NoMagnitudeRow(year) ==
    [ExtractedRow(MaxEvents + 2, year) EXCEPT !.magnitude = NULL]

Frames(year) ==
    (SUBSET ({ExtractedRow(e, year) : e \in EventIds}
                \cup {OutOfRangeRow(year), NoMagnitudeRow(year)})) \ {{}}

\* Rows for the schema builder taken on its own: raw_earthquakes as any loader
\* may have left it, every column of the table being nullable.  A row is one
\* of two complete records; the first may have one natural-key column NULL,
\* or carry the category 'Unknown'.
Columns == {"datetime", "latitude", "longitude", "place", "region", "magnitude",
            "magnitude_type", "magnitude_category"}

BaseRow(e, v) ==
    IF v = 1
    THEN [event_id |-> e, datetime |-> Some(202001),
          latitude |-> Some(10), longitude |-> Some(20),
          place |-> Some("Unknown"), region |-> Some("Unknown"),
          magnitude |-> Some(25), magnitude_type |-> Some("Unknown"),
          magnitude_category |-> Some(MagnitudeCategory(25)), depth |-> Some(5)]
    ELSE [event_id |-> e, datetime |-> Some(202107),
          latitude |-> Some(-30), longitude |-> Some(140),
          place |-> Some("Tokyo"), region |-> Some("Tokyo"),
          magnitude |-> Some(45), magnitude_type |-> Some("ml"),
          magnitude_category |-> Some(MagnitudeCategory(45)), depth |-> Some(80)]

WithNull(r, c) == [f \in DOMAIN r |-> IF f = c THEN NULL ELSE r[f]]

RowPool ==
    {BaseRow(e, v) : e \in 1..MaxIds, v \in {1, 2}}
    \cup {WithNull(BaseRow(e, 1), c) : e \in 1..MaxIds, c \in Columns}
    \cup {[BaseRow(e, 1) EXCEPT !.magnitude_category = Some("Unknown")] :
              e \in 1..MaxIds}

RECURSIVE TablesUpTo(_)
TablesUpTo(n) ==
    IF n = 0 THEN {{}}
    ELSE LET P == TablesUpTo(n - 1) IN P \cup {s \cup {r} : s \in P, r \in RowPool}

\* No component is in the middle of an operation of its own; no file has
\* been downloaded.
NoDownload == [year |-> 0, force |-> FALSE, attempt |-> 0]
NoReturn == [year |-> 0, how |-> "none"]
NoArgs == [start_date |-> 0, end_date |-> 0, chunk_months |-> 0]

PartInit ==
    /\ cube_jobs = {}
    /\ raw_files = [y \in Years |-> "absent"]
    /\ download = NoDownload
    /\ dl_returned = NoReturn
    /\ chunk_args = NoArgs
    /\ chunks = <<>>

\* ------------------------------------------- orchestrator (run_etl_incremental)
NoYearly == [y \in Years |-> ABSENT]
NoSummary == [total_years |-> 0, gaps |-> <<>>, total_events |-> 0]

\* config.data_source: years_to_load when it is a non-empty list, else the
\* range start_year..end_year, else the current year.
YearLists == UNION {[1..n -> Years] : n \in 1..MaxReq}
YearRanges == {Range(a, b) : a \in Years, b \in Years} \ {<<>>}
RequestedYears == YearLists \cup YearRanges

\* main: the loop that builds years_to_process.
YearsToProcess(requested, md) == Filter(requested, get_loaded_years(md))

\* Variant of the merge without the deduplication on event_id: the plain
\* UNION ALL of the non-empty yearly tables.
merge_yearly_tables_UnionAll(raw, tables, years) ==
    LET existing == {y \in SetOf(years) : ProbeLoaded(tables, y)}
    IN IF existing = {} THEN {raw}
       ELSE {Table(UNION {TableRows(tables[y]) : y \in existing})}

\* merge_yearly_tables: the tables raw_earthquakes can hold after the call.
\* DISTINCT ON (event_id) ... ORDER BY event_id, datetime DESC keeps, per
\* event_id, a row with the greatest datetime.
merge_yearly_tables(raw, tables, years) ==
    LET existing == {y \in SetOf(years) : ProbeLoaded(tables, y)}
        all == UNION {TableRows(tables[y]) : y \in existing}
        ids == {r.event_id : r \in all}
        first(e) == {r \in all : /\ r.event_id = e
                                 /\ \A o \in all : o.event_id = e =>
                                        Val(o.datetime) <= Val(r.datetime)}
    IN IF existing = {} THEN {raw}
       ELSE {Table({f[e] : e \in ids}) :
                f \in {g \in [ids -> all] : \A e \in ids : g[e] \in first(e)}}

\* cleanup_old_yearly_tables: every table named raw_earthquakes_* is dropped.
cleanup_old_yearly_tables(tables) == [y \in DOMAIN tables |-> ABSENT]

Init ==
    /\ config \in RequestedYears
    /\ pc = "idle"
    /\ metadata = EmptyMetadata
    /\ db_exists = FALSE
    /\ yearly = NoYearly
    /\ raw_earthquakes = ABSENT
    /\ dim_time = ABSENT
    /\ dim_location = ABSENT
    /\ dim_magnitude = ABSENT
    /\ fact_earthquakes = ABSENT
    /\ cubes = NoCubes
    /\ requested_years = <<>>
    /\ years_to_process = <<>>
    /\ todo = <<>>
    /\ summary = NoSummary
    /\ claimed_years = {}
    /\ actual_loaded_years = <<>>
    /\ needs_merge = FALSE
    /\ needs_olap_rebuild = FALSE
    /\ last_run_ok = FALSE
    /\ df = {}
    /\ removed_rows = 0
    /\ PartInit

Idle == pc \in {"idle", "done", "failed"}

\* main, lines 199-209: a new run starts and validates the metadata against
\* the store when the database file exists.
Validate ==
    /\ UNCHANGED <<config, partVars>>
    /\ df' = {}
    /\ removed_rows' = 0
    /\ Idle
    /\ last_run_ok' = (pc = "done")
    /\ IF db_exists
       THEN LET v == validate_loaded_years(metadata, yearly)
            IN /\ claimed_years' = SetOf(metadata.loaded_years)
               /\ actual_loaded_years' = v[1]
               /\ metadata' = v[2]
       ELSE /\ claimed_years' = {}
            /\ actual_loaded_years' = <<>>
            /\ metadata' = metadata
    /\ requested_years' = <<>>
    /\ years_to_process' = <<>>
    /\ todo' = <<>>
    /\ summary' = NoSummary
    /\ needs_merge' = FALSE
    /\ needs_olap_rebuild' = FALSE
    /\ pc' = "validated"
    /\ UNCHANGED storeVars

\* main, lines 211-239: summary, requested years, work list.  The locals of
\* the validation call are not read again and are dropped here.
Plan ==
    /\ UNCHANGED <<config, partVars, df, removed_rows>>
    /\ pc = "validated"
    /\ requested_years' = config
    /\ years_to_process' = YearsToProcess(config, metadata)
    /\ todo' = YearsToProcess(config, metadata)
    /\ summary' = get_summary(metadata)
    /\ claimed_years' = {}
    /\ actual_loaded_years' = <<>>
    /\ pc' = "process"
    /\ UNCHANGED <<metadata, needs_merge, needs_olap_rebuild,
                   last_run_ok>>
    /\ UNCHANGED storeVars

\* process_year raises (download, extraction or parsing error): main returns 1.
ProcessYearFails ==
    /\ UNCHANGED <<config, partVars, df, removed_rows>>
    /\ pc = "process"
    /\ todo # <<>>
    /\ pc' = "failed"
    /\ UNCHANGED <<metadata, requested_years, years_to_process, todo, summary,
                   claimed_years, actual_loaded_years, needs_merge,
                   needs_olap_rebuild, last_run_ok>>
    /\ UNCHANGED storeVars

\* process_year, lines 62-64: the extracted file has no rows.
ProcessYearNoData ==
    /\ UNCHANGED <<config, partVars>>
    /\ df' = {}
    /\ removed_rows' = 0
    /\ pc = "process"
    /\ todo # <<>>
    /\ todo' = Tail(todo)
    /\ UNCHANGED <<pc, metadata, requested_years, years_to_process, summary,
                   claimed_years, actual_loaded_years, needs_merge,
                   needs_olap_rebuild, last_run_ok>>
    /\ UNCHANGED storeVars

\* process_year, lines 69-94: the transformed rows (none when every row was
\* filtered out) replace raw_earthquakes_<year>; details recorded, year marked.
ProcessYear ==
    /\ UNCHANGED <<config, partVars>>
    /\ pc = "process"
    /\ todo # <<>>
    /\ LET year == Head(todo)
       IN \E frame \in Frames(year) :
            LET df_transformed == transform(frame)
            IN /\ df' = frame
               /\ removed_rows' = RemovedRows(frame)
               /\ yearly' = [yearly EXCEPT ![year] = Table(df_transformed)]
               /\ metadata' = mark_year_loaded(
                                  record_year_details(metadata, year,
                                                      Cardinality(df_transformed)),
                                  year)
    /\ db_exists' = TRUE
    /\ todo' = Tail(todo)
    /\ UNCHANGED <<pc, requested_years, years_to_process, summary,
                   claimed_years, actual_loaded_years, needs_merge,
                   needs_olap_rebuild, last_run_ok>>
    /\ UNCHANGED <<raw_earthquakes, olapVars>>

\* Variant of the merge step that does not wait for the work list to be
\* exhausted: the merge runs while partitions are still to be ingested.
Merge_Early ==
    /\ UNCHANGED <<config, partVars, df, removed_rows>>
    /\ pc = "process"
    /\ db_exists' = TRUE
    /\ needs_merge' = TRUE
    /\ raw_earthquakes' \in
          merge_yearly_tables(raw_earthquakes, yearly,
                              sorted(get_loaded_years(metadata)))
    /\ pc' = "cleanup"
    /\ UNCHANGED <<metadata, requested_years, years_to_process, todo, summary,
                   claimed_years, actual_loaded_years, needs_olap_rebuild,
                   last_run_ok>>
    /\ UNCHANGED <<yearly, olapVars>>

\* main, lines 254-302: connect, decide needs_merge, merge all loaded years.
Merge ==
    /\ UNCHANGED <<config, partVars, df, removed_rows>>
    /\ pc = "process"
    /\ todo = <<>>
    /\ db_exists' = TRUE
    /\ LET raw_exists == raw_earthquakes # ABSENT
           raw_row_count == Cardinality(TableRows(raw_earthquakes))
           expected_total == summary.total_events
           nm == \/ years_to_process # <<>>
                 \/ ~raw_exists
                 \/ raw_row_count # expected_total
       IN /\ needs_merge' = nm
          /\ IF nm
             THEN raw_earthquakes' \in
                    merge_yearly_tables(raw_earthquakes, yearly,
                                        sorted(get_loaded_years(metadata)))
             ELSE raw_earthquakes' = raw_earthquakes
    /\ pc' = "cleanup"
    /\ UNCHANGED <<metadata, requested_years, years_to_process, todo, summary,
                   claimed_years, actual_loaded_years, needs_olap_rebuild,
                   last_run_ok>>
    /\ UNCHANGED <<yearly, olapVars>>

\* Variant of the rebuild decision that looks at olap_exists only: a merge
\* does not force the rebuild.
Cleanup_OlapExistsOnly ==
    /\ UNCHANGED <<config, partVars, df, removed_rows>>
    /\ pc = "cleanup"
    /\ yearly' = cleanup_old_yearly_tables(yearly)
    /\ needs_olap_rebuild' = (fact_earthquakes = ABSENT)
    /\ pc' = "olap"
    /\ UNCHANGED <<metadata, requested_years, years_to_process, todo, summary,
                   claimed_years, actual_loaded_years, needs_merge,
                   last_run_ok>>
    /\ UNCHANGED <<db_exists, raw_earthquakes, olapVars>>

\* main, lines 304-308: drop the yearly tables; olap_exists was read at line
\* 273 and fact_earthquakes has not changed since.
Cleanup ==
    /\ UNCHANGED <<config, partVars, df, removed_rows>>
    /\ pc = "cleanup"
    /\ yearly' = cleanup_old_yearly_tables(yearly)
    /\ needs_olap_rebuild' = (fact_earthquakes = ABSENT \/ needs_merge)
    /\ pc' = "olap"
    /\ UNCHANGED <<metadata, requested_years, years_to_process, todo, summary,
                   claimed_years, actual_loaded_years, needs_merge,
                   last_run_ok>>
    /\ UNCHANGED <<db_exists, raw_earthquakes, olapVars>>

\* OLAPSchema.create_star_schema, lines 32-34: the three dimensions.
CreateDimensions ==
    /\ raw_earthquakes # ABSENT
    /\ LET raw == TableRows(raw_earthquakes)
       IN /\ dim_time' = Table(CreateDimTime(raw))
          /\ dim_location' = Table(CreateDimLocation(raw))
          /\ dim_magnitude' = Table(CreateDimMagnitude(raw))

\* OLAPSchema.create_star_schema, line 37: the fact table, joined to the
\* given dimension tables.
CreateFact(dt, dl, dm) ==
    \E fact \in CreateFactEarthquakes(TableRows(raw_earthquakes), TableRows(dt),
                                       TableRows(dl), TableRows(dm)) :
        fact_earthquakes' = Table(fact)

\* OLAPSchema.create_star_schema: the three dimensions, then the fact table.
CreateStarSchema ==
    /\ CreateDimensions
    /\ CreateFact(dim_time', dim_location', dim_magnitude')

\* main, lines 310-315, and create_star_schema up to the dimensions.
RebuildDimensions ==
    /\ UNCHANGED <<config, partVars, df, removed_rows>>
    /\ pc = "olap"
    /\ needs_olap_rebuild
    /\ CreateDimensions
    /\ pc' = "fact"
    /\ UNCHANGED <<metadata, runVars, last_run_ok>>
    /\ UNCHANGED <<db_exists, yearly, raw_earthquakes, fact_earthquakes, cubes>>

\* create_star_schema, line 37: the fact table over the new dimensions.
RebuildFact ==
    /\ UNCHANGED <<config, partVars, df, removed_rows>>
    /\ pc = "fact"
    /\ CreateFact(dim_time, dim_location, dim_magnitude)
    /\ pc' = "cubes"
    /\ UNCHANGED <<metadata, runVars, last_run_ok>>
    /\ UNCHANGED <<db_exists, yearly, raw_earthquakes, dim_time, dim_location,
                   dim_magnitude, cubes>>

\* main, lines 322-329: create_cubes over the new star schema.
RebuildCubes ==
    /\ UNCHANGED <<config, partVars, df, removed_rows>>
    /\ pc = "cubes"
    /\ cubes' = create_cubes(TableRows(fact_earthquakes), TableRows(dim_time),
                             TableRows(dim_location), TableRows(dim_magnitude))
    /\ pc' = "done"
    /\ UNCHANGED <<metadata, runVars, last_run_ok>>
    /\ UNCHANGED <<db_exists, yearly, raw_earthquakes, dim_time, dim_location,
                   dim_magnitude, fact_earthquakes>>

\* create_star_schema raises when raw_earthquakes does not exist: main returns 1.
RebuildFails ==
    /\ UNCHANGED <<config, partVars, df, removed_rows>>
    /\ pc = "olap"
    /\ needs_olap_rebuild
    /\ raw_earthquakes = ABSENT
    /\ pc' = "failed"
    /\ UNCHANGED <<metadata, runVars, last_run_ok>>
    /\ UNCHANGED storeVars

\* main, line 331: nothing to rebuild.
SkipRebuild ==
    /\ UNCHANGED <<config, partVars, df, removed_rows>>
    /\ pc = "olap"
    /\ ~needs_olap_rebuild
    /\ pc' = "done"
    /\ UNCHANGED <<metadata, runVars, last_run_ok>>
    /\ UNCHANGED storeVars

\* duckdb.connect at line 260 raises (the file is held by another process):
\* main returns 1 before the merge.
ConnectFails ==
    /\ UNCHANGED <<config, partVars, df, removed_rows>>
    /\ pc = "process"
    /\ todo = <<>>
    /\ pc' = "failed"
    /\ UNCHANGED <<metadata, runVars, last_run_ok>>
    /\ UNCHANGED storeVars

Next ==
    \/ Validate
    \/ Plan
    \/ ProcessYearFails
    \/ ProcessYearNoData
    \/ ProcessYear
    \/ Merge
    \/ Cleanup
    \/ RebuildDimensions
    \/ RebuildFact
    \/ RebuildCubes
    \/ RebuildFails
    \/ SkipRebuild
    \/ ConnectFails

Spec == Init /\ [][Next]_vars

\* ------------------------------------------- runs under an edited configuration
\* The configurations the runs alternate between: one single year each.
GrowConfigs == {<<2020>>, <<2021>>}

\* Between two runs the configured years are edited (config.yaml,
\* data_source.years_to_load).
Reconfigure ==
    /\ Idle
    /\ config' \in GrowConfigs \ {config}
    /\ UNCHANGED <<partVars, pc, metadata, runVars, last_run_ok, df, removed_rows>>
    /\ UNCHANGED storeVars

GrowInit == Init /\ config \in GrowConfigs

GrowNext == Next \/ Reconfigure

GrowSpec == GrowInit /\ [][GrowNext]_vars

\* ------------------------------------------- the schema builder on its own
\* scripts/test_olap.py: create_star_schema on the raw_earthquakes of an
\* existing database, as often as it is run.
SchemaInit ==
    /\ config = <<2020>>
    /\ pc = "olap"
    /\ metadata = EmptyMetadata
    /\ db_exists = TRUE
    /\ yearly = NoYearly
    /\ raw_earthquakes \in {Table(rows) : rows \in TablesUpTo(MaxRows)}
    /\ dim_time = ABSENT
    /\ dim_location = ABSENT
    /\ dim_magnitude = ABSENT
    /\ fact_earthquakes = ABSENT
    /\ cubes = NoCubes
    /\ requested_years = <<>>
    /\ years_to_process = <<>>
    /\ todo = <<>>
    /\ summary = NoSummary
    /\ claimed_years = {}
    /\ actual_loaded_years = <<>>
    /\ needs_merge = FALSE
    /\ needs_olap_rebuild = TRUE
    /\ last_run_ok = FALSE
    /\ df = {}
    /\ removed_rows = 0
    /\ PartInit

BuildSchema ==
    /\ CreateStarSchema
    /\ cubes' = create_cubes(TableRows(fact_earthquakes'), TableRows(dim_time'),
                             TableRows(dim_location'), TableRows(dim_magnitude'))
    /\ UNCHANGED <<config, partVars, pc, metadata, runVars, last_run_ok>>
    /\ UNCHANGED <<db_exists, yearly, raw_earthquakes, df, removed_rows>>

SchemaNext == BuildSchema

SchemaSpec == SchemaInit /\ [][SchemaNext]_vars

\* ------------------------------------------------- the cube builds on their own
\* The five statements of create_cubes over one star schema, each an atomic
\* CREATE OR REPLACE TABLE, taken in any order.
CubeInit ==
    /\ config = <<2020>>
    /\ pc = "cubes"
    /\ metadata = EmptyMetadata
    /\ db_exists = TRUE
    /\ yearly = NoYearly
    /\ \E rows \in TablesUpTo(MaxRows - 1) :
          /\ raw_earthquakes = Table(rows)
          /\ dim_time = Table(CreateDimTime(rows))
          /\ dim_location = Table(CreateDimLocation(rows))
          /\ dim_magnitude = Table(CreateDimMagnitude(rows))
          /\ \E fact \in CreateFactEarthquakes(rows, CreateDimTime(rows),
                                                CreateDimLocation(rows),
                                                CreateDimMagnitude(rows)) :
                fact_earthquakes = Table(fact)
    /\ cubes = NoCubes
    /\ requested_years = <<>>
    /\ years_to_process = <<>>
    /\ todo = <<>>
    /\ summary = NoSummary
    /\ claimed_years = {}
    /\ actual_loaded_years = <<>>
    /\ needs_merge = FALSE
    /\ needs_olap_rebuild = TRUE
    /\ last_run_ok = FALSE
    /\ df = {}
    /\ removed_rows = 0
    /\ cube_jobs = CubeNames
    /\ raw_files = [y \in Years |-> "absent"]
    /\ download = NoDownload
    /\ dl_returned = NoReturn
    /\ chunk_args = NoArgs
    /\ chunks = <<>>

BuildCube(c) ==
    /\ c \in cube_jobs
    /\ cubes' = [cubes EXCEPT ![c] =
                    Table(CubeBuild(c, TableRows(fact_earthquakes),
                                    TableRows(dim_time), TableRows(dim_location),
                                    TableRows(dim_magnitude)))]
    /\ cube_jobs' = cube_jobs \ {c}
    /\ UNCHANGED <<config, pc, metadata, runVars, last_run_ok, df, removed_rows>>
    /\ UNCHANGED <<raw_files, download, dl_returned, chunk_args, chunks>>
    /\ UNCHANGED <<db_exists, yearly, raw_earthquakes, dim_time, dim_location,
                   dim_magnitude, fact_earthquakes>>

CubeNext == \E c \in CubeNames : BuildCube(c)

CubeSpec == CubeInit /\ [][CubeNext]_vars

\* ------------------------------------------------- the downloader on its own
\* config.etl.retry_attempts (default).
retry_attempts == 3

\* _download_single_file, lines 176-181: the file exists and force is not
\* set: the path is returned and nothing is downloaded.
DownloadCached(year) ==
    /\ download = NoDownload
    /\ raw_files[year] # "absent"
    /\ dl_returned' = [year |-> year, how |-> "cached"]
    /\ UNCHANGED <<raw_files, download>>

\* _download_single_file, lines 183-189: the first attempt starts.
StartDownload(year, force) ==
    /\ download = NoDownload
    /\ raw_files[year] = "absent" \/ force
    /\ download' = [year |-> year, force |-> force, attempt |-> 1]
    /\ dl_returned' = NoReturn
    /\ UNCHANGED raw_files

\* _download_with_progress runs to its end: the whole body is in the file.
AttemptSucceeds ==
    /\ download # NoDownload
    /\ raw_files' = [raw_files EXCEPT ![download.year] = "complete"]
    /\ dl_returned' = [year |-> download.year, how |-> "downloaded"]
    /\ download' = NoDownload

\* Lines 192-200: after a failed attempt, the next one, or the exception is
\* raised when this was the last.
AfterFailure ==
    IF download.attempt < retry_attempts
    THEN /\ download' = [download EXCEPT !.attempt = @ + 1]
         /\ UNCHANGED dl_returned
    ELSE /\ download' = NoDownload
         /\ dl_returned' = [year |-> download.year, how |-> "raised"]

\* The request fails before the file is opened (connection error, timeout,
\* raise_for_status): the file is as it was.
AttemptFailsAtRequest ==
    /\ download # NoDownload
    /\ UNCHANGED raw_files
    /\ AfterFailure

\* The stream breaks after open(output_path, "wb"): the file holds the part
\* of the body written so far.
AttemptFailsPartWay ==
    /\ download # NoDownload
    /\ raw_files' = [raw_files EXCEPT ![download.year] = "partial"]
    /\ AfterFailure

DownloadInit == Init /\ config = <<2020>>

DownloadNext ==
    /\ \/ \E year \in Years : DownloadCached(year)
       \/ \E year \in Years, force \in BOOLEAN : StartDownload(year, force)
       \/ AttemptSucceeds
       \/ AttemptFailsAtRequest
       \/ AttemptFailsPartWay
    /\ UNCHANGED <<config, pc, metadata, runVars, last_run_ok, df, removed_rows,
                   storeVars, cube_jobs, chunk_args, chunks>>

DownloadSpec == DownloadInit /\ [][DownloadNext]_vars

\* ------------------------------------------------- the date chunks on their own
\* Dates are day numbers; timedelta(days=n) adds n.
RECURSIVE ChunksFrom(_, _, _)
\* The while loop of _create_date_chunks from current_start on.
ChunksFrom(current_start, end_date, chunk_months) ==
    IF ~(current_start < end_date) THEN <<>>
    ELSE LET stepped == current_start + chunk_months * 30
             chunk_end == IF stepped > end_date THEN end_date ELSE stepped
         IN << <<current_start, chunk_end>> >>
              \o ChunksFrom(chunk_end + 1, end_date, chunk_months)

_create_date_chunks(start_date, end_date, chunk_months) ==
    ChunksFrom(start_date, end_date, chunk_months)

\* A call with start_date < end_date.
CreateDateChunks ==
    /\ \E start_date \in 0..MaxStartDay, end_date \in 1..MaxDay,
          chunk_months \in 1..MaxChunkMonths :
          /\ start_date < end_date
          /\ chunk_args' = [start_date |-> start_date, end_date |-> end_date,
                            chunk_months |-> chunk_months]
          /\ chunks' = _create_date_chunks(start_date, end_date, chunk_months)
    /\ UNCHANGED <<config, pc, metadata, runVars, last_run_ok, df, removed_rows,
                   storeVars, cube_jobs, raw_files, download, dl_returned>>

ChunkInit == Init /\ config = <<2020>>

ChunkNext == CreateDateChunks

ChunkSpec == ChunkInit /\ [][ChunkNext]_vars

\* ------------------------------------------------- the tracker on its own
\* validate_loaded_years at the start of a run, over every metadata file and
\* every set of yearly tables earlier runs can have left: a year is claimed
\* with the row count recorded when it was loaded, and its table is absent
\* (dropped after a merge), empty or holds some of the year's rows.
LoadedMetadata(loaded) ==
    [loaded_years |-> sorted(loaded),
     year_details |-> [y \in loaded |-> MaxEvents]]

\* raw_earthquakes_<year>: absent, or holding the rows of the given events.
YearlyTable(year, kept) ==
    IF IsNull(kept) THEN ABSENT
    ELSE Table({PipelineRow(e, year) : e \in Val(kept)})

TrackerInit ==
    /\ config = <<2020>>
    /\ pc = "idle"
    /\ metadata \in {LoadedMetadata(loaded) : loaded \in SUBSET Years}
    /\ db_exists = TRUE
    /\ \E kept \in [Years -> {NULL} \cup {Some(1..n) : n \in 0..MaxEvents}] :
          yearly = [y \in Years |-> YearlyTable(y, kept[y])]
    /\ raw_earthquakes = ABSENT
    /\ dim_time = ABSENT
    /\ dim_location = ABSENT
    /\ dim_magnitude = ABSENT
    /\ fact_earthquakes = ABSENT
    /\ cubes = NoCubes
    /\ requested_years = <<>>
    /\ years_to_process = <<>>
    /\ todo = <<>>
    /\ summary = NoSummary
    /\ claimed_years = {}
    /\ actual_loaded_years = <<>>
    /\ needs_merge = FALSE
    /\ needs_olap_rebuild = FALSE
    /\ last_run_ok = FALSE
    /\ df = {}
    /\ removed_rows = 0
    /\ PartInit

TrackerNext == Validate

TrackerSpec == TrackerInit /\ [][TrackerNext]_vars

\* ------------------------------------------------- the merge on its own
\* merge_yearly_tables over the loaded years of any metadata and any set of
\* yearly tables, as main calls it at lines 300-302.
MergeYearlyTables ==
    /\ pc = "idle"
    /\ raw_earthquakes' \in
          merge_yearly_tables(raw_earthquakes, yearly,
                              sorted(get_loaded_years(metadata)))
    /\ pc' = "cleanup"
    /\ UNCHANGED <<config, partVars, metadata, runVars, last_run_ok, df,
                   removed_rows>>
    /\ UNCHANGED <<db_exists, yearly, olapVars>>

MergeNext == MergeYearlyTables

MergeSpec == TrackerInit /\ [][MergeNext]_vars

\* ------------------------------------------- the DataManager operations
\* The public operations of DataManager called in any order on one metadata
\* file, which may also be damaged from outside.  Every operation starts with
\* _load_metadata; summary holds what the last get_summary call returned.
mgrOther == <<config, partVars, df, removed_rows, pc, db_exists, yearly, raw_earthquakes,
              olapVars,
              requested_years, years_to_process, todo, claimed_years,
              needs_merge, needs_olap_rebuild, last_run_ok>>

\* The yearly tables the store holds while the operations run: none, or
\* those of the even years.
BackedChoices == {{}, {y \in Years : y % 2 = 0}}

ManagerInit ==
    /\ config = <<2020>>
    /\ pc = "idle"
    /\ metadata = EmptyMetadata
    /\ db_exists = FALSE
    /\ \E backed \in BackedChoices :
          yearly = [y \in Years |-> YearlyTable(y, IF y \in backed
                                                     THEN Some(EventIds) ELSE NULL)]
    /\ raw_earthquakes = ABSENT
    /\ dim_time = ABSENT
    /\ dim_location = ABSENT
    /\ dim_magnitude = ABSENT
    /\ fact_earthquakes = ABSENT
    /\ cubes = NoCubes
    /\ requested_years = <<>>
    /\ years_to_process = <<>>
    /\ todo = <<>>
    /\ summary = NoSummary
    /\ claimed_years = {}
    /\ actual_loaded_years = <<>>
    /\ needs_merge = FALSE
    /\ needs_olap_rebuild = FALSE
    /\ last_run_ok = FALSE
    /\ df = {}
    /\ removed_rows = 0
    /\ PartInit

MarkYearLoaded(year) ==
    /\ metadata' = mark_year_loaded(load_metadata(metadata), year)
    /\ summary' = NoSummary
    /\ actual_loaded_years' = <<>>
    /\ UNCHANGED mgrOther

RecordYearDetails(year) ==
    /\ metadata' = record_year_details(load_metadata(metadata), year, MaxEvents)
    /\ summary' = NoSummary
    /\ actual_loaded_years' = <<>>
    /\ UNCHANGED mgrOther

ClearYear(year) ==
    /\ metadata' = clear_year(load_metadata(metadata), year)
    /\ summary' = NoSummary
    /\ actual_loaded_years' = <<>>
    /\ UNCHANGED mgrOther

ResetAll ==
    /\ metadata' = EmptyMetadata
    /\ summary' = NoSummary
    /\ actual_loaded_years' = <<>>
    /\ UNCHANGED mgrOther

GetSummary ==
    /\ summary' = get_summary(load_metadata(metadata))
    /\ actual_loaded_years' = <<>>
    /\ UNCHANGED metadata
    /\ UNCHANGED mgrOther

\* validate_loaded_years: the file is written only when a year was purged.
ValidateLoadedYears ==
    /\ LET md == load_metadata(metadata)
           v == validate_loaded_years(md, yearly)
       IN /\ actual_loaded_years' = v[1]
          /\ metadata' = IF v[2] = md THEN metadata ELSE v[2]
    /\ summary' = NoSummary
    /\ UNCHANGED mgrOther

\* The file is truncated or overwritten with something json.load rejects.
DamageFile ==
    /\ metadata # UNPARSEABLE
    /\ metadata' = UNPARSEABLE
    /\ summary' = NoSummary
    /\ actual_loaded_years' = <<>>
    /\ UNCHANGED mgrOther

ManagerNext ==
    \/ \E year \in Years : MarkYearLoaded(year)
    \/ \E year \in Years : RecordYearDetails(year)
    \/ \E year \in Years : ClearYear(year)
    \/ ResetAll
    \/ GetSummary
    \/ ValidateLoadedYears
    \/ DamageFile

ManagerSpec == ManagerInit /\ [][ManagerNext]_vars

\* ===================================================== properties: schema
Built == fact_earthquakes.exists
RawRows == TableRows(raw_earthquakes)
FactRows == TableRows(fact_earthquakes)

\* Raw rows with none of datetime, latitude, longitude, magnitude null.
CompleteRows == {r \in RawRows : FactWhere(r)}

\* The natural-key tuple a raw row carries for each dimension.
TimeKey(r) == <<r.datetime>>
LocationKey(r) == <<r.latitude, r.longitude, COALESCE(r.place, "Unknown"),
                    COALESCE(r.region, "Unknown")>>
MagnitudeKey(r) == <<r.magnitude, COALESCE(r.magnitude_type, "Unknown"),
                     r.magnitude_category>>

\* C5: after create_star_schema every fact row has a non-null time_id,
\* location_id and magnitude_id (a raw row whose join misses is left out).
C5_NoNullForeignKey ==
    Built => \A f \in FactRows :
                /\ ~IsNull(f.time_id)
                /\ ~IsNull(f.location_id)
                /\ ~IsNull(f.magnitude_id)

\* C6: the fact table holds exactly one row for each event_id that occurs
\* among the raw rows with non-null datetime, latitude, longitude and
\* magnitude, and no event_id twice.
C6_OneFactRowPerEventId ==
    Built => LET ids == {r.event_id : r \in CompleteRows}
             IN /\ {f.event_id : f \in FactRows} = ids
                /\ Cardinality(FactRows) = Cardinality(ids)

\* C6 witness: three raw rows, two of them sharing an event_id and differing
\* in depth, built into exactly two fact rows.
C6_Witness ==
    /\ Built
    /\ Cardinality(RawRows) = 3
    /\ Cardinality(CompleteRows) = 3
    /\ \E a \in RawRows, b \in RawRows :
          a.event_id = b.event_id /\ a.depth # b.depth
    /\ Cardinality(FactRows) = 2

\* C7: a raw row with a null in datetime, latitude, longitude or magnitude
\* contributes nothing: every dimension row carries the key of some complete
\* raw row, and every fact row the event_id of one.
C7_IncompleteRowsContributeNothing ==
    Built =>
        /\ \A t \in TableRows(dim_time) :
              \E r \in CompleteRows : TimeKey(r) = <<t.datetime>>
        /\ \A l \in TableRows(dim_location) :
              \E r \in CompleteRows :
                  LocationKey(r) = <<l.latitude, l.longitude, l.place, l.region>>
        /\ \A m \in TableRows(dim_magnitude) :
              \E r \in CompleteRows :
                  MagnitudeKey(r) = <<m.magnitude, m.magnitude_type,
                                      m.magnitude_category>>
        /\ \A f \in FactRows : \E r \in CompleteRows : r.event_id = f.event_id

\* C8: in each dimension the surrogate ids are exactly 1..N, each once, N
\* being the number of distinct coalesced natural-key tuples among the raw
\* rows the dimension reads (those with its key's required columns non-null).
Dense(ids, rows, n) == ids = 1..n /\ Cardinality(rows) = n

ForeignKeys(fact) ==
    {<<f.event_id, f.time_id, f.location_id, f.magnitude_id>> : f \in TableRows(fact)}

C9_RebuildIdempotent ==
    [][(Built /\ raw_earthquakes' = raw_earthquakes) =>
          /\ dim_time' = dim_time
          /\ dim_location' = dim_location
          /\ dim_magnitude' = dim_magnitude
          /\ ForeignKeys(fact_earthquakes') = ForeignKeys(fact_earthquakes)]_vars

\* C10: of several joined rows that share an event_id, every rebuild over
\* the same input keeps the same one.
C10_DeterministicTieBreak ==
    [][(Built /\ raw_earthquakes' = raw_earthquakes) =>
          \A f \in TableRows(fact_earthquakes) :
             \A g \in TableRows(fact_earthquakes') :
                g.event_id = f.event_id => g = f]_vars

\* ============================================= properties: tracker and runs
\* The state main is in once the work list is built and nothing is processed.
Planned == pc = "process" /\ todo = years_to_process /\ requested_years # <<>>

\* Claimed years whose table raw_earthquakes_<year> exists and has a row.
BackedYears(claimed) ==
    {y \in claimed : yearly[y].exists /\ Cardinality(yearly[y].rows) >= 1}

\* C1: the list of years a run decides to process is the requested years
\* minus the validated loaded years, sorted ascending and without duplicates.
C1_YearsToProcessSortedSet ==
    Planned => years_to_process =
                   sorted(SetOf(requested_years) \ get_loaded_years(metadata))

\* C2: validate_loaded_years returns exactly the claimed years whose table
\* exists and has at least one row; the stored loaded_years is that list,
\* year_details has no entry for a purged year, no unclaimed year is added
\* and the store is left as it was.
C2_ValidateExact ==
    [][(Idle /\ db_exists /\ pc' = "validated") =>
          LET claimed == get_loaded_years(metadata)
              returned == SetOf(actual_loaded_years')
          IN /\ returned = BackedYears(claimed)
             /\ SetOf(metadata'.loaded_years) = returned
             /\ \A y \in claimed \ returned : y \notin DOMAIN metadata'.year_details
             /\ returned \subseteq claimed
             /\ storeVars' = storeVars]_vars

\* C2 witness: a validation that kept one claimed year and purged another.
C2_Witness ==
    /\ pc = "validated"
    /\ db_exists
    /\ SetOf(actual_loaded_years) # {}
    /\ claimed_years \ SetOf(actual_loaded_years) # {}
    /\ SetOf(metadata.loaded_years) = SetOf(actual_loaded_years)

\* The case of C3: 2020, 2021 and 2023 are claimed and validation has run
\* against a store with non-empty tables for 2020 and 2023 only.
C3_Case ==
    /\ pc = "validated"
    /\ db_exists
    /\ claimed_years = {2020, 2021, 2023}
    /\ BackedYears(Years) = {2020, 2023}

\* C3 (amended): in that case validation returns 2020 and 2023 and the
\* summary computed afterwards reports the single gap (2021, 2022).
C3_GapAfterValidation ==
    C3_Case => /\ actual_loaded_years = <<2020, 2023>>
               /\ get_summary(metadata).gaps = << <<2021, 2022>> >>

\* C3 as stated: the summary reports the gap (2022, 2022).
C3_AsStated ==
    C3_Case => /\ actual_loaded_years = <<2020, 2023>>
               /\ get_summary(metadata).gaps = << <<2022, 2022>> >>

\* C3 witness: the case is reached and the summary has exactly one gap.
C3_Witness ==
    /\ C3_Case
    /\ Len(get_summary(metadata).gaps) = 1

\* C4: a run that follows a successful run with the same requested years
\* ingests no year, merges nothing and rebuilds nothing.
C4_ShortCircuit ==
    (last_run_ok /\ pc = "done") =>
        /\ years_to_process = <<>>
        /\ ~needs_merge
        /\ ~needs_olap_rebuild

Max(S) == CHOOSE x \in S : \A y \in S : y <= x

\* The years missing from L strictly between its least and greatest year.
MissingInSpan(L) ==
    IF L = {} THEN {} ELSE {y \in Min(L)..Max(L) : y \notin L}

\* gaps is the ascending list of the maximal ranges of years missing from L.
MaximalGaps(gaps, L) ==
    /\ \A i \in DOMAIN gaps :
          /\ gaps[i][1] <= gaps[i][2]
          /\ \A y \in gaps[i][1]..gaps[i][2] : y \in MissingInSpan(L)
          /\ gaps[i][1] - 1 \in L
          /\ gaps[i][2] + 1 \in L
    /\ \A i \in DOMAIN gaps : \A j \in DOMAIN gaps :
          i < j => gaps[i][2] < gaps[j][1]
    /\ \A y \in MissingInSpan(L) :
          Cardinality({i \in DOMAIN gaps : gaps[i][1] <= y /\ y <= gaps[i][2]}) = 1

\* C12: get_summary().gaps is the ascending list of the maximal ranges of
\* consecutive years missing from loaded_years between the least and the
\* greatest loaded year; no loaded year and no year outside lies in a range.
C12_GapsAreMaximalRanges ==
    [][GetSummary =>
          MaximalGaps(summary'.gaps,
                      get_loaded_years(load_metadata(metadata)))]_vars

\* C12 witness: a summary with two gaps.
C12_Witness == Len(summary.gaps) = 2

\* C13: mark_year_loaded is idempotent: a second call for the same year
\* leaves loaded_years as the first call left it, and a call for a year that
\* is already loaded changes neither loaded_years nor year_details.
C13_MarkYearLoadedIdempotent ==
    [][\A year \in Years :
          MarkYearLoaded(year) =>
              LET before == load_metadata(metadata)
              IN /\ mark_year_loaded(metadata', year).loaded_years
                        = metadata'.loaded_years
                 /\ year \in get_loaded_years(before) =>
                        /\ metadata'.loaded_years = before.loaded_years
                        /\ metadata'.year_details = before.year_details]_vars

\* C13 witness: two years are loaded, one of them with its details recorded
\* (marking either again is a step from this state).
C13_Witness ==
    /\ metadata # UNPARSEABLE
    /\ Len(metadata.loaded_years) >= 2
    /\ \E year \in get_loaded_years(metadata) : year \in DOMAIN metadata.year_details

\* ================================================ properties: validation
\* C14: a failing probe is not raised to the caller: when the table of a
\* claimed year is absent (the count query raises), validate_loaded_years
\* returns normally, without that year, and still returns every other claimed
\* year whose table has rows.
C14_ProbeFailureNotRaised ==
    [][(Idle /\ db_exists /\ pc' # pc) =>
          LET claimed == get_loaded_years(metadata)
              failing == {y \in claimed : IsNull(ProbeCount(yearly, y))}
          IN /\ pc' = "validated"
             /\ \A y \in failing : y \notin SetOf(actual_loaded_years')
             /\ \A y \in claimed \ failing :
                   Cardinality(TableRows(yearly[y])) > 0
                       => y \in SetOf(actual_loaded_years')]_vars

\* C14 witness: validation has returned after the probe of one claimed year
\* failed on an absent table, and a later claimed year was kept.
C14_Witness ==
    /\ pc = "validated"
    /\ db_exists
    /\ \E y1 \in claimed_years, y2 \in claimed_years :
          /\ y1 < y2
          /\ yearly[y1] = ABSENT
          /\ y2 \in SetOf(actual_loaded_years)

\* C15: with a metadata file that cannot be parsed, get_loaded_years,
\* get_years_to_load, get_summary, validate_loaded_years and mark_year_loaded
\* all behave as on empty metadata.
C15_UnparseableFileReadsAsEmpty ==
    [][metadata = UNPARSEABLE =>
          /\ get_loaded_years(load_metadata(metadata)) = {}
          /\ \A a \in Years, b \in Years :
                get_years_to_load(load_metadata(metadata), a, b)
                    = get_years_to_load(EmptyMetadata, a, b)
          /\ GetSummary => summary' = get_summary(EmptyMetadata)
          /\ ValidateLoadedYears =>
                /\ actual_loaded_years' = <<>>
                /\ metadata' = metadata
          /\ \A year \in Years :
                MarkYearLoaded(year) =>
                    metadata' = mark_year_loaded(EmptyMetadata, year)]_vars

\* C15 witness: the file has become unparseable and no call has returned
\* anything since; every operation is a step from this state.
C15_Witness ==
    /\ metadata = UNPARSEABLE
    /\ summary = NoSummary
    /\ actual_loaded_years = <<>>

\* ===================================================== properties: cubes
CubesBuilt == \A c \in CubeNames : cubes[c].exists

\* C20: after create_cubes every row of each of the five cubes counts at
\* least one event.
C20_NoZeroCountCubeRow ==
    CubesBuilt =>
        \A c \in CubeNames : \A row \in TableRows(cubes[c]) : row.event_count >= 1

\* C20 witness: the cubes are built, the location cube has a row, and the
\* dimensions hold a (region, magnitude_category) pair with no fact row,
\* which the location cube does not list.
C20_Witness ==
    /\ CubesBuilt
    /\ TableRows(cubes["cube_location_magnitude"]) # {}
    /\ \E l \in TableRows(dim_location), m \in TableRows(dim_magnitude) :
          \A row \in TableRows(cubes["cube_location_magnitude"]) :
             row.key # <<l.region, m.magnitude_category>>


\* ------------------------------------------------- properties: step order
\* The successions of steps a run goes through: validation, work list,
\* ingestion of the partitions (pc stays "process"), merge, cleanup,
\* dimensions, fact table, cubes; a run may stop with a failure or find
\* nothing to rebuild.
RunOrder ==
    {<<"idle", "validated">>, <<"done", "validated">>, <<"failed", "validated">>,
     <<"validated", "process">>, <<"process", "cleanup">>, <<"process", "failed">>,
     <<"cleanup", "olap">>, <<"olap", "fact">>, <<"olap", "done">>,
     <<"olap", "failed">>, <<"fact", "cubes">>, <<"cubes", "done">>}

\* C16: in every run the steps occur in the order validation, ingestion,
\* merge, dimension rebuild, fact rebuild, cube rebuild: the work list is
\* computed right after validation from metadata whose loaded years all have
\* a non-empty table, a partition is ingested only while the work list is
\* being processed, the unified raw table changes only once the work list is
\* exhausted, and dimensions, fact table and cubes change only in their own
\* step, in that order.
C16_StepsInOrder ==
    [][/\ pc' # pc => <<pc, pc'>> \in RunOrder
       /\ pc' = "process" /\ pc # "process" =>
             /\ pc = "validated"
             /\ \A y \in get_loaded_years(metadata) : ProbeLoaded(yearly, y)
             /\ years_to_process' = YearsToProcess(requested_years', metadata)
       /\ years_to_process' # years_to_process =>
             pc' \in {"validated", "process"} /\ pc' # pc
       /\ (\E y \in Years : yearly'[y] # yearly[y] /\ yearly'[y].exists) =>
             pc = "process" /\ todo # <<>>
       /\ raw_earthquakes' # raw_earthquakes => pc = "process" /\ todo = <<>>
       /\ <<dim_time, dim_location, dim_magnitude>>' #
             <<dim_time, dim_location, dim_magnitude>> => pc = "olap"
       /\ fact_earthquakes' # fact_earthquakes => pc = "fact"
       /\ cubes' # cubes => pc = "cubes"]_vars

\* A run that ingested a partition, merged it and rebuilt the whole OLAP layer.
C16_Witness ==
    /\ pc = "done"
    /\ years_to_process # <<>>
    /\ needs_merge /\ needs_olap_rebuild
    /\ TableRows(raw_earthquakes) # {}
    /\ TableRows(fact_earthquakes) # {}
    /\ CubesBuilt
    /\ \E c \in CubeNames : TableRows(cubes[c]) # {}


\* --------------------------------------------- properties: partition lifecycle
\* The unified raw table holds a row of the partition of this year.
MergedYear(raw, year) ==
    \E r \in TableRows(raw) : ~IsNull(r.datetime) /\ YearOf(Val(r.datetime)) = year

\* C17: a year enters the persisted loaded_years only after its batch was
\* ingested, merged into the unified raw table and confirmed to have a
\* non-empty live backing table.
C17_TrackedOnlyAfterMergedAndValidated ==
    [][\A y \in Years :
          y \in get_loaded_years(metadata') \ get_loaded_years(metadata) =>
              /\ MergedYear(raw_earthquakes, y)
              /\ ProbeLoaded(yearly, y)]_vars


\* ------------------------------------------ properties: null natural keys
NullableKeyColumns == {"place", "region", "magnitude_type", "magnitude_category"}

\* a and b are complete raw rows, the only ones with their event ids, that
\* differ in column c alone: NULL in a, 'Unknown' in b.
NullVersusUnknown(a, b, c) ==
    /\ a \in CompleteRows /\ b \in CompleteRows
    /\ a.event_id # b.event_id
    /\ \A r \in RawRows : r.event_id \in {a.event_id, b.event_id} => r \in {a, b}
    /\ IsNull(a[c]) /\ b[c] = Some("Unknown")
    /\ \A f \in (DOMAIN a) \ {c, "event_id"} : a[f] = b[f]

\* The dimension rows that stand for the natural key of raw row r once every
\* null of the key has been read as 'Unknown'.
LocationRowsOf(r) ==
    {l \in TableRows(dim_location) :
        <<l.latitude, l.longitude, COALESCE(l.place, "Unknown"),
          COALESCE(l.region, "Unknown")>> = LocationKey(r)}

MagnitudeRowsOf(r) ==
    {m \in TableRows(dim_magnitude) :
        <<m.magnitude, COALESCE(m.magnitude_type, "Unknown"),
          COALESCE(m.magnitude_category, "Unknown")>> =
        <<r.magnitude, COALESCE(r.magnitude_type, "Unknown"),
          COALESCE(r.magnitude_category, "Unknown")>>}

\* C18: two raw records that differ only in place, region, magnitude_type or
\* magnitude_category being NULL in one and 'Unknown' in the other yield a
\* single dimension row, and the fact rows of both carry that row's id.
C18_NullCollapsesToUnknown ==
    Built =>
        \A c \in NullableKeyColumns : \A a \in RawRows, b \in RawRows :
            NullVersusUnknown(a, b, c) =>
                /\ Cardinality(LocationRowsOf(a)) = 1
                /\ Cardinality(MagnitudeRowsOf(a)) = 1
                /\ \A f \in FactRows : f.event_id \in {a.event_id, b.event_id} =>
                      /\ \E l \in LocationRowsOf(a) : f.location_id = Some(l.location_id)
                      /\ \E m \in MagnitudeRowsOf(a) : f.magnitude_id = Some(m.magnitude_id)


\* ------------------------------------------- properties: invalid coordinates
\* A record of the extracted frame with its latitude outside [-90, 90].
LatitudeOutOfRange(r) ==
    ~IsNull(r.latitude) /\ (Val(r.latitude) < -90 \/ Val(r.latitude) > 90)

\* The frame holds exactly one record with an invalid latitude, beside
\* records the transform keeps.
OneInvalidAmongValid(frame) ==
    /\ Cardinality({r \in frame : LatitudeOutOfRange(r)}) = 1
    /\ \A r \in frame : LatitudeOutOfRange(r) \/ transform({r}) # {}
    /\ \E r \in frame : ~LatitudeOutOfRange(r)

\* C19: a record with latitude 95 among otherwise valid records is removed
\* by the transform, which reports exactly 1 removed row; the record reaches
\* neither the table of its year nor raw_earthquakes, dim_location or the
\* fact table.
C19_InvalidLatitudeDropped ==
    [][/\ (df' # df /\ OneInvalidAmongValid(df')) =>
             /\ removed_rows' = 1
             /\ \A r \in df' : LatitudeOutOfRange(r) =>
                   \A y \in Years : \A x \in TableRows(yearly'[y]) :
                       x.event_id # r.event_id
       /\ \A x \in TableRows(raw_earthquakes') \cup TableRows(dim_location') :
             ~LatitudeOutOfRange(x)
       /\ \A f \in TableRows(fact_earthquakes') : f.event_id \in EventIds]_vars

\* A finished run whose last partition held a record with latitude 95 beside
\* a valid one: one row reported removed, the valid record in the fact table.
C19_Witness ==
    /\ pc = "done"
    /\ OneInvalidAmongValid(df)
    /\ removed_rows = 1
    /\ TableRows(dim_location) # {}
    /\ TableRows(fact_earthquakes) # {}


\* ------------------------------------------------- properties: cube builds
\* C21: the five cube builds do not depend on one another: in whatever order
\* they run, each writes its own table only, and once all have run the five
\* tables hold what create_cubes computes from the fact and dimension tables.
C21_CubeOrderIrrelevant ==
    [][/\ \A c \in CubeNames : cubes'[c] # cubes[c] => c \in cube_jobs \ cube_jobs'
       /\ cube_jobs' = {} =>
             cubes' = create_cubes(TableRows(fact_earthquakes), TableRows(dim_time),
                                   TableRows(dim_location), TableRows(dim_magnitude))
      ]_vars

\* All five builds have run over a fact table with two events.
C21_Witness ==
    /\ pc = "cubes" /\ cube_jobs = {}
    /\ Cardinality(TableRows(fact_earthquakes)) = 2
    /\ \A c \in CubeNames : TableRows(cubes[c]) # {}


\* ------------------------------------------- properties: marking a year loaded
\* C22: a year is marked loaded only when its staging table has been written
\* with at least one row, so that it passes the next validation probe while
\* the table is untouched.
C22_MarkedOnlyWithRows ==
    [][\A y \in Years :
          y \in get_loaded_years(metadata') \ get_loaded_years(metadata) =>
              ProbeLoaded(yearly', y)]_vars


\* ------------------------------------------------- properties: the merge
\* The rows of the non-empty staging tables of the loaded years.
StagedRows ==
    UNION {TableRows(yearly[y]) :
              y \in {x \in get_loaded_years(metadata) : ProbeLoaded(yearly, x)}}

DerivedFromRaw ==
    /\ raw_earthquakes.exists
    /\ dim_time = Table(CreateDimTime(RawRows))
    /\ dim_location = Table(CreateDimLocation(RawRows))
    /\ dim_magnitude = Table(CreateDimMagnitude(RawRows))
    /\ fact_earthquakes.exists
    /\ FactRows \in CreateFactEarthquakes(RawRows, TableRows(dim_time),
                                           TableRows(dim_location),
                                           TableRows(dim_magnitude))
    /\ cubes = create_cubes(FactRows, TableRows(dim_time),
                            TableRows(dim_location), TableRows(dim_magnitude))

Lost(r, rows) ==
    /\ r \notin rows
    /\ ~\E n \in rows : n.event_id = r.event_id
                         /\ Val(n.datetime) > Val(r.datetime)

\* C25: the warehouse only grows across runs: a record that a run has merged
\* into raw_earthquakes stays there through every later run, whatever years
\* the later run requests, unless the merge replaces it by a newer version
\* of the same event; and the fact table of a finished run holds its event.
C25_WarehouseOnlyGrows ==
    [][/\ \A r \in TableRows(raw_earthquakes) :
             ~Lost(r, TableRows(raw_earthquakes'))
       /\ pc' = "done" =>
             \A r \in TableRows(raw_earthquakes') :
                 \E f \in TableRows(fact_earthquakes') : f.event_id = r.event_id
      ]_vars


\* ------------------------------------------- properties: metadata shape
\* C26: in every metadata state the tracker operations can reach, every key
\* of year_details is a year of loaded_years, so that total_events sums the
\* row counts of exactly the loaded years.
C26_DetailsOnlyForLoadedYears ==
    LET md == load_metadata(metadata)
    IN DOMAIN md.year_details \subseteq get_loaded_years(md)


\* C27: starting from absent metadata, after any sequence of tracker
\* operations the persisted loaded_years list is strictly ascending.
C27_LoadedYearsStrictlyAscending ==
    LET ly == load_metadata(metadata).loaded_years
    IN \A i \in 1..(Len(ly) - 1) : ly[i] < ly[i + 1]

\* Three years loaded with a gap between them, one of them with details.
C27_Witness ==
    /\ metadata # UNPARSEABLE
    /\ Len(metadata.loaded_years) = 3
    /\ metadata.loaded_years[3] - metadata.loaded_years[1] > 2
    /\ DOMAIN metadata.year_details # {}


\* ------------------------------------------- properties: cube totals
\* The sum of the event-count column of a cube.
CubeTotal(c) ==
    LET rows == TableRows(cubes[c])
    IN Sum([r \in rows |-> r.event_count], rows)

\* C28: after create_star_schema and create_cubes every fact row is counted
\* in exactly one row of each cube: the event counts of each cube add up to
\* the number of fact rows.
C28_CubesCountEveryFactRow ==
    (Built /\ CubesBuilt) =>
        \A c \in CubeNames : CubeTotal(c) = Cardinality(FactRows)


\* ------------------------------------------- properties: the download cache
\* C29: a file that _download_single_file returns from the cache was written
\* completely by a download attempt that succeeded.
C29_CachedFileIsComplete ==
    dl_returned.how = "cached" => raw_files[dl_returned.year] = "complete"


\* ------------------------------------------- properties: date chunks
\* C30: _create_date_chunks(start, end) with start < end returns chunks in
\* ascending order that do not overlap, each spanning at most
\* chunk_months*30 days, the first starting at start and the last ending at
\* end, every day from start to end lying in exactly one chunk.
C30_ChunksPartitionTheRange ==
    chunk_args # NoArgs =>
        LET n == Len(chunks)
            first == chunk_args.start_date
            last == chunk_args.end_date
        IN /\ n >= 1
           /\ chunks[1][1] = first
           /\ chunks[n][2] = last
           /\ \A i \in 1..n :
                 /\ chunks[i][1] <= chunks[i][2]
                 /\ chunks[i][2] - chunks[i][1] <= chunk_args.chunk_months * 30
           /\ \A i \in 1..(n - 1) : chunks[i][2] < chunks[i + 1][1]
           /\ \A d \in first..last :
                 Cardinality({i \in 1..n : chunks[i][1] <= d /\ d <= chunks[i][2]}) = 1

====
